---------------------------- MODULE Spec2Model ----------------------------
(***************************************************************************)
(* Model of the Wordle solver of chatbot-server: the FastMCP tool server   *)
(* (src/server.py) and the pure engine of the JSON-RPC coach               *)
(* (src/src/mcp_server/engine.py).                                         *)
(*                                                                         *)
(* A Python str is a sequence of characters; a character is a one-symbol   *)
(* string.  Characters outside ASCII are written with a bracketed name:    *)
(* "<green>" is U+1F7E9, "<yellow>" U+1F7E8, "<black>" U+2B1B, "<white>"   *)
(* U+2B1C, "<a-acute>" U+00E1, "<nl>" the newline.                         *)
(***************************************************************************)
EXTENDS Integers, Sequences, FiniteSets, TLC

VARIABLES
    wordfile,       \* word.txt: whether it exists, and its raw lines
    unidecodeOk,    \* whether the optional unidecode package was imported
    hashSeed,       \* the process's string-hash seed (orders the items of a set)
    _SESSIONS,      \* the session table: session id -> SessionState
    ret,            \* what the last tool call did and returned
    call,           \* the pure-function harness: function, arguments, result
    _LOCK,          \* threading.Lock(): "free", or the thread that holds it
    threads,        \* thread -> where it is in a tool call, and its locals
    heap            \* the SessionState objects built while threads run

vars == <<wordfile, unidecodeOk, hashSeed, _SESSIONS, ret, call, _LOCK, threads, heap>>

-----------------------------------------------------------------------------
(* Strings *)

Range(s) == {s[i] : i \in 1..Len(s)}

\* F applied to the value v, which is computed once.
With(v, F(_)) == F(v)

Min(a, b) == IF a <= b THEN a ELSE b

Max(a, b) == IF a >= b THEN a ELSE b

\* Python's s[:k]: k >= 0 keeps the first k items, k < 0 drops the last -k.
SliceTo(s, k) ==
    IF k >= 0 THEN SubSeq(s, 1, Min(k, Len(s)))
    ELSE SubSeq(s, 1, Max(0, Len(s) + k))

AZ == {"a", "b", "c", "d", "e", "f", "g", "h", "i", "j", "k", "l", "m",
       "n", "o", "p", "q", "r", "s", "t", "u", "v", "w", "x", "y", "z"}

LowerOf == [A |-> "a", B |-> "b", C |-> "c", D |-> "d", E |-> "e", F |-> "f",
            G |-> "g", H |-> "h", I |-> "i", J |-> "j", K |-> "k", L |-> "l",
            M |-> "m", N |-> "n", O |-> "o", P |-> "p", Q |-> "q", R |-> "r",
            S |-> "s", T |-> "t", U |-> "u", V |-> "v", W |-> "w", X |-> "x",
            Y |-> "y", Z |-> "z"]

UpperOf == [a |-> "A", b |-> "B", c |-> "C", d |-> "D", e |-> "E", f |-> "F",
            g |-> "G", h |-> "H", i |-> "I", j |-> "J", k |-> "K", l |-> "L",
            m |-> "M", n |-> "N", o |-> "O", p |-> "P", q |-> "Q", r |-> "R",
            s |-> "S", t |-> "T", u |-> "U", v |-> "V", w |-> "W", x |-> "X",
            y |-> "Y", z |-> "Z"]

\* str.lower() and str.upper(), character by character.
lower(s) == [i \in 1..Len(s) |-> IF s[i] \in DOMAIN LowerOf THEN LowerOf[s[i]] ELSE s[i]]

upper(s) == [i \in 1..Len(s) |-> IF s[i] \in DOMAIN UpperOf THEN UpperOf[s[i]] ELSE s[i]]

Whitespace == {" ", "<nl>"}

RECURSIVE lstrip(_)
lstrip(s) == IF s # <<>> /\ Head(s) \in Whitespace THEN lstrip(Tail(s)) ELSE s

RECURSIVE rstrip(_)
rstrip(s) ==
    IF s # <<>> /\ s[Len(s)] \in Whitespace THEN rstrip(SubSeq(s, 1, Len(s) - 1)) ELSE s

\* str.strip()
strip(s) == rstrip(lstrip(s))

RECURSIVE Concat(_)
Concat(ss) == IF ss = <<>> THEN <<>> ELSE Head(ss) \o Concat(Tail(ss))

\* unidecode(x): transliteration to ASCII when the package is installed, the
\* identity fallback otherwise.
unidecode(x, installed) ==
    IF installed
    THEN Concat([i \in 1..Len(x) |->
             IF x[i] = "<a-acute>" THEN <<"a">> ELSE <<x[i]>>])
    ELSE x

IsAZ(c) == c \in AZ

WordLen == 5

\* ALPHA_RE.match(w): ^[a-z]{5}$
ALPHA_RE(w) == Len(w) = WordLen /\ \A i \in 1..Len(w) : IsAZ(w[i])

\* _norm(word): lower case, no accents, only a-z, exactly 5 letters, else "".
_norm(word, installed) ==
    With(SelectSeq(lower(strip(unidecode(word, installed))), IsAZ),
         LAMBDA w : IF Len(w) = WordLen THEN w ELSE <<>>)

-----------------------------------------------------------------------------
(* Pattern engine and filtering (src/server.py) *)

Get(d, k) == IF k \in DOMAIN d THEN d[k] ELSE 0

Put(d, k, v) == [x \in DOMAIN d \cup {k} |-> IF x = k THEN v ELSE d[x]]

\* First loop of _pattern: greens, and the count of the answer's letters
\* at the positions that are not green.
RECURSIVE PatternGreens(_, _, _, _, _)
PatternGreens(g, a, i, res, remaining) ==
    IF i > WordLen THEN [res |-> res, remaining |-> remaining]
    ELSE IF g[i] = a[i]
         THEN PatternGreens(g, a, i + 1, [res EXCEPT ![i] = "G"], remaining)
         ELSE PatternGreens(g, a, i + 1, res,
                            Put(remaining, a[i], Get(remaining, a[i]) + 1))

\* A second loop that marks a letter present without using up the answer's
\* copy of it.
RECURSIVE PatternYellowsNoDecrement(_, _, _, _)
PatternYellowsNoDecrement(g, i, res, remaining) ==
    IF i > WordLen THEN res
    ELSE IF res[i] = "G" THEN PatternYellowsNoDecrement(g, i + 1, res, remaining)
    ELSE IF Get(remaining, g[i]) > 0
         THEN PatternYellowsNoDecrement(g, i + 1, [res EXCEPT ![i] = "Y"], remaining)
         ELSE PatternYellowsNoDecrement(g, i + 1, [res EXCEPT ![i] = "K"], remaining)

\* Second loop of _pattern: yellows and grays, left to right.
RECURSIVE PatternYellows(_, _, _, _)
PatternYellows(g, i, res, remaining) ==
    IF i > WordLen THEN res
    ELSE IF res[i] = "G" THEN PatternYellows(g, i + 1, res, remaining)
    ELSE IF Get(remaining, g[i]) > 0
         THEN PatternYellows(g, i + 1, [res EXCEPT ![i] = "Y"],
                             Put(remaining, g[i], remaining[g[i]] - 1))
         ELSE PatternYellows(g, i + 1, [res EXCEPT ![i] = "K"], remaining)

_pattern(guess, answer) ==
    With(PatternGreens(guess, answer, 1, [i \in 1..WordLen |-> "K"], <<>>),
         LAMBDA p1 : PatternYellows(guess, 1, p1.res, p1.remaining))

_EMOJI_TO_CODE ==
    [x \in {"<green>", "<yellow>", "<black>", "<white>"} |->
        CASE x = "<green>" -> "G"
          [] x = "<yellow>" -> "Y"
          [] x = "<black>" -> "K"
          [] x = "<white>" -> "K"]

GYK == {"G", "Y", "K"}

\* The outcome of a call: the value it returns, or the exception it raises.
\* A message is written by its first words.
Ok(v) == [exc |-> "none", msg |-> "", val |-> v]

Raise(e, m) == [exc |-> e, msg |-> m, val |-> <<>>]

IsError(r) == r.exc # "none"

\* _coerce_feedback(s): the G/Y/K string, or the ValueError it raises.
MapEmoji(s) ==
    [i \in 1..Len(s) |->
        IF s[i] \in DOMAIN _EMOJI_TO_CODE THEN _EMOJI_TO_CODE[s[i]] ELSE s[i]]

\* A coercion that checks the length and not the symbols.
_coerce_feedback_any_symbol(fb) ==
    With(MapEmoji(upper(strip(fb))), LAMBDA cand :
        IF Len(cand) = 5 THEN Ok(cand) ELSE Raise("ValueError", "feedback invalido"))

_coerce_feedback(fb) ==
    With(upper(strip(fb)), LAMBDA s :
        IF Len(s) = 5 /\ Range(s) \subseteq GYK THEN Ok(s)
        ELSE With(MapEmoji(s), LAMBDA cand :
                 IF Len(cand) = 5 /\ Range(cand) \subseteq GYK THEN Ok(cand)
                 ELSE Raise("ValueError", "feedback invalido")))

\* A loop that computes the pattern of the candidate against the guess.
RECURSIVE FilterLoopSwapped(_, _, _)
FilterLoopSwapped(words, guess, fb) ==
    IF words = <<>> THEN <<>>
    ELSE IF _pattern(Head(words), guess) = fb
         THEN <<Head(words)>> \o FilterLoopSwapped(Tail(words), guess, fb)
         ELSE FilterLoopSwapped(Tail(words), guess, fb)

\* A loop that puts each kept word in front of the ones kept before.
RECURSIVE FilterLoopPrepends(_, _, _)
FilterLoopPrepends(words, guess, fb) ==
    IF words = <<>> THEN <<>>
    ELSE IF _pattern(guess, Head(words)) = fb
         THEN FilterLoopPrepends(Tail(words), guess, fb) \o <<Head(words)>>
         ELSE FilterLoopPrepends(Tail(words), guess, fb)

\* A loop that starts at the second word.
FilterLoopFromSecond(words, guess, fb) ==
    LET match(w) == _pattern(guess, w) = fb
    IN  IF words = <<>> THEN <<>> ELSE SelectSeq(Tail(words), match)

\* The loop of _filter_by_feedback over words, once the feedback is coerced.
RECURSIVE FilterLoop(_, _, _)
FilterLoop(words, guess, fb) ==
    IF words = <<>> THEN <<>>
    ELSE IF _pattern(guess, Head(words)) = fb
         THEN <<Head(words)>> \o FilterLoop(Tail(words), guess, fb)
         ELSE FilterLoop(Tail(words), guess, fb)

_filter_by_feedback(words, guess, feedback) ==
    With(_coerce_feedback(feedback), LAMBDA fb :
        IF IsError(fb) THEN fb ELSE Ok(FilterLoop(words, guess, fb.val)))

-----------------------------------------------------------------------------
(* The engine of the JSON-RPC coach (src/src/mcp_server/engine.py) *)

\* The greens loop of pattern_for_guess: res and the used flags.
RECURSIVE EngineGreens(_, _, _, _, _)
EngineGreens(guess, answer, i, res, used) ==
    IF i > 5 THEN [res |-> res, used |-> used]
    ELSE IF guess[i] = answer[i]
         THEN EngineGreens(guess, answer, i + 1,
                           [res EXCEPT ![i] = "G"], [used EXCEPT ![i] = TRUE])
         ELSE EngineGreens(guess, answer, i + 1, res, used)

\* Counter(answer[i] for i in range(5) if not used[i])
RECURSIVE EngineCounter(_, _, _, _)
EngineCounter(answer, used, i, cnt) ==
    IF i > 5 THEN cnt
    ELSE IF used[i] THEN EngineCounter(answer, used, i + 1, cnt)
    ELSE EngineCounter(answer, used, i + 1, Put(cnt, answer[i], Get(cnt, answer[i]) + 1))

\* The yellows loop of pattern_for_guess.
RECURSIVE EngineYellows(_, _, _, _)
EngineYellows(guess, i, res, remaining) ==
    IF i > 5 THEN res
    ELSE IF res[i] = "K" /\ Get(remaining, guess[i]) > 0
         THEN EngineYellows(guess, i + 1, [res EXCEPT ![i] = "Y"],
                            Put(remaining, guess[i], remaining[guess[i]] - 1))
         ELSE EngineYellows(guess, i + 1, res, remaining)

pattern_for_guess(guess0, answer0) ==
    With(lower(guess0), LAMBDA guess : With(lower(answer0), LAMBDA answer :
        With(EngineGreens(guess, answer, 1, [i \in 1..5 |-> "K"], [i \in 1..5 |-> FALSE]),
             LAMBDA p1 : EngineYellows(guess, 1, p1.res,
                                       EngineCounter(answer, p1.used, 1, <<>>)))))

apply_feedback_to_candidates(candidates, guess0, feedback0) ==
    With(lower(guess0), LAMBDA guess : With(upper(feedback0), LAMBDA feedback :
        LET keep(w) == pattern_for_guess(guess, w) = feedback
        IN  SelectSeq(candidates, keep)))

-----------------------------------------------------------------------------
(* Entropy and suggestions (src/server.py) *)

\* Python's None where the code only tests it for truth: None and 0 are both
\* falsy, and every number the code puts there is positive.
None == 0

RECURSIVE Pow(_, _)
Pow(b, e) == IF e = 0 THEN 1 ELSE b * Pow(b, e - 1)

RECURSIVE ProdPow(_, _)
ProdPow(buckets, keys) ==
    IF keys = {} THEN 1
    ELSE LET k == CHOOSE x \in keys : TRUE
         IN  Pow(buckets[k], buckets[k]) * ProdPow(buckets, keys \ {k})

RECURSIVE SumSq(_, _)
SumSq(buckets, keys) ==
    IF keys = {} THEN 0
    ELSE LET k == CHOOSE x \in keys : TRUE
         IN  buckets[k] * buckets[k] + SumSq(buckets, keys \ {k})

\* The buckets loop of _entropy_for_guess: pattern -> number of answers.
RECURSIVE Buckets(_, _, _)
Buckets(guess, answers, buckets) ==
    IF answers = <<>> THEN buckets
    ELSE With(_pattern(guess, Head(answers)), LAMBDA p :
             Buckets(guess, Tail(answers), Put(buckets, p, Get(buckets, p) + 1)))

\* _entropy_for_guess(guess, answers) = (H, exp_rem), both kept exact:
\*   H       = -sum (c/n) log2 (c/n) = log2 n - log2 (prod c^c) / n,  as [n, prod];
\*   exp_rem = sum (c/n) c           = (sum c^2) / n,                  as [num, den].
_entropy_for_guess(guess, answers) ==
    IF Len(answers) = 0
    THEN [bits |-> [n |-> 1, prod |-> 1], exp_rem |-> [num |-> 0, den |-> 1]]
    ELSE With(Buckets(guess, answers, <<>>), LAMBDA buckets :
             [bits |-> [n |-> Len(answers), prod |-> ProdPow(buckets, DOMAIN buckets)],
              exp_rem |-> [num |-> SumSq(buckets, DOMAIN buckets), den |-> Len(answers)]])

\* Order of two entropies over the same number of answers: more bits is a
\* smaller product.
BitsGreater(b1, b2) == b1.prod < b2.prod

\* H = 0 exactly when all answers fall in one bucket.
BitsZero(b) == b.prod = Pow(b.n, b.n)

ExpLess(e1, e2) == e1.num * e2.den < e2.num * e1.den

\* list.sort(key = ...) is stable; an item is [item, k1, k2] and the key the
\* pair (k1, k2), ascending.
KeyLess(a, b) == a.k1 < b.k1 \/ (a.k1 = b.k1 /\ a.k2 < b.k2)

RECURSIVE InsertSorted(_, _)
InsertSorted(sorted, x) ==
    IF sorted = <<>> THEN <<x>>
    ELSE IF KeyLess(x, Head(sorted)) THEN <<x>> \o sorted
    ELSE <<Head(sorted)>> \o InsertSorted(Tail(sorted), x)

RECURSIVE StableSort(_, _)
StableSort(items, sorted) ==
    IF items = <<>> THEN sorted
    ELSE StableSort(Tail(items), InsertSorted(sorted, Head(items)))

Items(keyed) == [i \in 1..Len(keyed) |-> keyed[i].item]

\* A sort that puts the guesses with the fewest bits first.
SortScoresWorstFirst(scores) ==
    Items(StableSort([i \in 1..Len(scores) |->
                         [item |-> scores[i], k1 |-> 0 - scores[i].bits.prod,
                          k2 |-> scores[i].exp_rem.num]], <<>>))

\* A sort that breaks a tie on bits by the larger expected remaining.
SortScoresTiesLargestFirst(scores) ==
    Items(StableSort([i \in 1..Len(scores) |->
                         [item |-> scores[i], k1 |-> scores[i].bits.prod,
                          k2 |-> 0 - scores[i].exp_rem.num]], <<>>))

\* scores.sort(key=lambda t: (-t[1], t[2])): bits descending, expected
\* remaining ascending.
SortScores(scores) ==
    Items(StableSort([i \in 1..Len(scores) |->
                         [item |-> scores[i], k1 |-> scores[i].bits.prod,
                          k2 |-> scores[i].exp_rem.num]], <<>>))

\* answers[::step]
RECURSIVE Stride(_, _)
Stride(answers, step) ==
    IF answers = <<>> THEN <<>>
    ELSE <<Head(answers)>> \o Stride(SubSeq(answers, Min(step, Len(answers)) + 1, Len(answers)), step)

_best_by_entropy(guess_pool, answers, top_k, sample_answers, limit_guess_pool) ==
    IF guess_pool = <<>> \/ answers = <<>> THEN <<>>
    ELSE With(IF sample_answers # None /\ Len(answers) > sample_answers
              THEN SliceTo(Stride(answers, Max(1, Len(answers) \div sample_answers)),
                           sample_answers)
              ELSE answers,
         LAMBDA answers_eval :
         With(IF limit_guess_pool # None THEN SliceTo(guess_pool, limit_guess_pool)
              ELSE guess_pool,
         LAMBDA pool :
         With([i \in 1..Len(pool) |->
                  With(_entropy_for_guess(pool[i], answers_eval), LAMBDA e :
                      [word |-> pool[i], bits |-> e.bits, exp_rem |-> e.exp_rem])],
         LAMBDA scores : SliceTo(SortScores(scores), top_k))))

\* letter_freq of _get_diverse_words: in how many candidates a letter occurs.
LetterFreq(candidates, ch) == Cardinality({i \in 1..Len(candidates) : ch \in Range(candidates[i])})

RECURSIVE SumFreq(_, _)
SumFreq(candidates, letters) ==
    IF letters = {} THEN 0
    ELSE LET ch == CHOOSE x \in letters : TRUE
         IN  LetterFreq(candidates, ch) + SumFreq(candidates, letters \ {ch})

\* diversity_score = unique_letters * 2 + freq_score / len(candidates), kept
\* exact by scaling with len(candidates).
DiversityScore(word, candidates) ==
    Cardinality(Range(word)) * 2 * Len(candidates) + SumFreq(candidates, Range(word))

_get_diverse_words(words, candidates, limit) ==
    IF words = <<>> \/ candidates = <<>> THEN words
    ELSE With(Items(StableSort([i \in 1..Len(words) |->
                                   [item |-> words[i],
                                    k1 |-> 0 - DiversityScore(words[i], candidates),
                                    k2 |-> 0]], <<>>)),
              LAMBDA word_scores :
                  SliceTo(word_scores, IF limit # None THEN limit ELSE Len(word_scores)))

_rerank_suggestions(scored, candidates, phase, attempts) ==
    LET isCand(t) == t.word \in Range(candidates)
        notCand(t) == t.word \notin Range(candidates)
    IN  IF phase = "end" /\ Len(candidates) <= 5
        THEN With(SelectSeq(scored, isCand), LAMBDA candidate_suggestions :
                 IF candidate_suggestions # <<>>
                 THEN SortScores(candidate_suggestions)
                          \o SortScores(SelectSeq(scored, notCand))
                 ELSE scored)
        ELSE scored

\* _analyze_remaining_candidates: the count and, with one candidate left, the
\* final answer.
_analyze_remaining_candidates(candidates, history) ==
    LET n == Len(candidates)
    IN  IF n = 1 THEN [count |-> 1, final_answer |-> candidates[1]]
        ELSE [count |-> n, final_answer |-> <<>>]

\* list(set(words)): the words once each, in the order of the process's
\* string hashing (fixed for the life of the process, seed-dependent).
RECURSIVE Unique(_, _)
Unique(words, out) ==
    IF words = <<>> THEN out
    ELSE IF Head(words) \in Range(out) THEN Unique(Tail(words), out)
    ELSE Unique(Tail(words), Append(out, Head(words)))

Reverse(s) == [i \in 1..Len(s) |-> s[Len(s) + 1 - i]]

\* Two of the orders a seed can give: first occurrence, and its reverse.
ListOfSet(words, seed) ==
    IF seed = 0 THEN Unique(words, <<>>) ELSE Reverse(Unique(words, <<>>))

-----------------------------------------------------------------------------
(* Word list and sessions (src/server.py) *)

max_words == 30000

basic_words ==
    << <<"c","a","r","r","o">>, <<"p","e","r","r","o">>, <<"g","a","t","o","s">>,
       <<"c","a","s","a","s">>, <<"m","u","n","d","o">>, <<"t","i","e","m","p","o">>,
       <<"l","u","g","a","r">>, <<"p","o","n","e","r">>, <<"h","a","c","e","r">>,
       <<"d","e","c","i","r">>, <<"l","l","e","g","a","r">>, <<"p","a","s","a","r">>,
       <<"q","u","e","d","a","r">>, <<"s","a","l","i","r">>, <<"v","e","n","i","r">>,
       <<"p","o","d","e","r">>, <<"t","e","n","e","r">>, <<"e","s","t","a","r">>,
       <<"h","a","b","e","r">>, <<"d","e","b","e","r">>, <<"q","u","e","r","e","r">>,
       <<"s","a","b","e","r">>, <<"p","e","n","s","a","r">>, <<"c","r","e","e","r">>,
       <<"l","l","e","v","a","r">>, <<"d","e","j","a","r">>, <<"v","i","v","i","r">>,
       <<"m","o","r","i","r">>, <<"n","a","c","e","r">>, <<"c","r","e","c","e","r">>,
       <<"s","u","b","i","r">>, <<"b","a","j","a","r">> >>

\* The loop of _make_wordlist over the lines of word.txt: normalised words,
\* first occurrence only, in file order.
RECURSIVE WordlistLoop(_, _, _)
WordlistLoop(lines, out, installed) ==
    IF lines = <<>> THEN out
    ELSE With(_norm(Head(lines), installed), LAMBDA w :
             IF w # <<>> /\ ALPHA_RE(w) /\ w \notin Range(out)
             THEN WordlistLoop(Tail(lines), Append(out, w), installed)
             ELSE WordlistLoop(Tail(lines), out, installed))

\* _make_wordlist(lang): lang is not used by the code.
_make_wordlist(lang, file, installed) ==
    LET isFive(w) == _norm(w, installed) # <<>> /\ Len(_norm(w, installed)) = 5
    IN  SliceTo(IF file.exists THEN WordlistLoop(file.lines, <<>>, installed)
                ELSE SelectSeq(basic_words, isFive),
                max_words)

SessionState(language, candidates, guess_pool, history) ==
    [language |-> language, candidates |-> candidates,
     guess_pool |-> guess_pool, history |-> history]

\* A lookup that builds the session anew on every call.
_ensure_session_anew(table, session, language, file, installed) ==
    With(_make_wordlist(language, file, installed), LAMBDA words :
        [x \in DOMAIN table \cup {session} |->
            IF x = session THEN SessionState(language, words, words, <<>>)
            ELSE table[x]])

\* _ensure_session(session, language): the session table after the call.
_ensure_session(table, session, language, file, installed) ==
    IF session \notin DOMAIN table
    THEN With(_make_wordlist(language, file, installed), LAMBDA words :
             [x \in DOMAIN table \cup {session} |->
                 IF x = session THEN SessionState(language, words, words, <<>>)
                 ELSE table[x]])
    ELSE table

\* The fields of a tool's answer; a tool fills in the ones it returns.
NoRet ==
    [op |-> "none", session |-> "", exc |-> "none", msg |-> "",
     guess |-> <<>>, feedback |-> <<>>, top_k |-> 0,
     language |-> "", candidates |-> 0, guess_pool |-> 0,
     applied |-> <<>>, candidates_before |-> 0, candidates_after |-> 0, narrowed |-> 0,
     game_phase |-> "", attempts |-> 0, best |-> <<>>, alternatives |-> <<>>,
     final_answer |-> <<>>, history |-> <<>>]

NoCall == [fn |-> "none", done |-> FALSE]

-----------------------------------------------------------------------------
(* Inputs *)

\* Bound on the feedback rounds recorded over all sessions.
MaxHistory == 4

\* The session ids clients use, and the one id of a client on its own.
SessionIds == {"default", "other"}

OneSession == {"default"}

Languages == {"es", "en"}

\* word.txt as found on disk: an empty file, and a file of raw lines.
EmptyFile == [exists |-> TRUE, lines |-> <<>>]

WordFile ==
      [exists |-> TRUE,
       lines |-> << <<"m","e","s","a","s","<nl>">>,
                    <<"S","a","s","s","y","<nl>">>,
                    <<"m","e","s","a","s","<nl>">>,
                    <<"s","a","s","<nl>">>,
                    <<" ","m","a","s","<a-acute>","s","<nl>">>,
                    <<"m","i","s","a","s","<nl>">>,
                    <<"<nl>">> >>]

\* The environments the server is started in: word.txt, whether unidecode is
\* installed, the hash seed.
Worlds ==
    { [wordfile |-> WordFile, unidecodeOk |-> TRUE, hashSeed |-> 0],
      [wordfile |-> WordFile, unidecodeOk |-> FALSE, hashSeed |-> 1],
      [wordfile |-> EmptyFile, unidecodeOk |-> TRUE, hashSeed |-> 1] }

\* Raw guesses as a client may send them.
ValidGuessInputs ==
    { <<"s","a","s","s","y">>,
      <<"s","a","-","s","s","y">>,
      <<" ","M","u","s","a","s","<nl>">> }

\* Pairs apply_feedback refuses: a guess without letters, a guess too long
\* with a feedback that is wrong too, a feedback with a symbol of neither
\* encoding, a feedback of six squares.
InvalidInputs ==
    LET g0 == <<"s","a","s","s","y">>
    IN  { << <<"1","2","3","4","5">>, <<"G","G","G","G","G">> >>,
          << <<"s","a","s","s","y","s">>, <<"G","Y","K","X","G">> >>,
          << g0, <<"G","Y","K","X","G">> >>,
          << g0, <<"<green>","<green>","<green>","<green>","<green>","<green>">> >> }

\* The three ways a client may write a pattern: G/Y/K, lower case with blanks
\* around, and squares.
EncodeLower(p) ==
    <<" ">> \o [i \in 1..Len(p) |-> IF i = 1 THEN p[i] ELSE lower(p)[i]] \o <<"<nl>">>

EncodeEmoji(p) ==
    [i \in 1..Len(p) |->
        CASE p[i] = "G" -> "<green>"
          [] p[i] = "Y" -> "<yellow>"
          [] p[i] = "K" -> IF i = 4 THEN "<white>" ELSE "<black>"]

Encode(guess, p) ==
    IF guess[1] = " " THEN EncodeLower(p)
    ELSE IF Len(guess) > 5 THEN EncodeEmoji(p)
    ELSE p

\* The feedback a game with answer a gives for the guess, for every word a of
\* the word list.
TruthfulFeedback(guess, words, installed) ==
    With(_norm(guess, installed), LAMBDA g :
        {Encode(guess, _pattern(g, words[i])) : i \in 1..Len(words)})

\* The (guess, feedback) pairs sent to apply_feedback.
ApplyInputs(words, installed) ==
    LET f0 == <<"G","G","G","G","G">>
    IN  UNION {{<<g, f>> : f \in TruthfulFeedback(g, words, installed) \cup
                                 (IF words = <<>> THEN {f0} ELSE {})} :
                  g \in ValidGuessInputs}
        \cup InvalidInputs

\* The pairs a client sends in each environment.
ApplyInputsOf ==
    [w \in Worlds |->
        ApplyInputs(_make_wordlist("es", w.wordfile, w.unidecodeOk), w.unidecodeOk)]

\* A few of the pairs sent to apply_feedback: two rounds that narrow the
\* dictionary differently, and a guess that is refused.
FewInputs ==
    { << <<"s","a","s","s","y">>, <<"Y","G","G","K","K">> >>,
      << <<" ","M","u","s","a","s","<nl>">>, EncodeLower(<<"G","K","G","G","G">>) >>,
      << <<"1","2","3","4","5">>, <<"G","G","G","G","G">> >> }

World == [wordfile |-> wordfile, unidecodeOk |-> unidecodeOk, hashSeed |-> hashSeed]

\* top_k as a client may send it: the code does not check it.
TopKs == {0, 1, 2}

RECURSIVE SumLen(_, _)
SumLen(table, ids) ==
    IF ids = {} THEN 0
    ELSE LET x == CHOOSE y \in ids : TRUE
         IN  Len(table[x].history) + SumLen(table, ids \ {x})

HistoryTotal == SumLen(_SESSIONS, DOMAIN _SESSIONS)

-----------------------------------------------------------------------------
(* The tools (src/server.py) *)

\* One call at a time: no other thread runs, the lock is taken and released
\* within the call.
NoThreads == _LOCK = "free" /\ threads = <<>> /\ heap = <<>>

Frame == UNCHANGED <<wordfile, unidecodeOk, hashSeed, call, _LOCK, threads, heap>>

\* A reset that reloads the words and forgets to clear the history.
ResetKeepsHistory(st, language, words) ==
    [st EXCEPT !.language = language, !.candidates = words, !.guess_pool = words]

\* A reset that clears the history and keeps the narrowed candidates.
ResetKeepsCandidates(st, language, words) ==
    [st EXCEPT !.language = language, !.guess_pool = words, !.history = <<>>]

\* The assignments of reset_session to the session's state.
ResetState(st, language, words) ==
    [st EXCEPT !.language = language, !.candidates = words, !.guess_pool = words,
               !.history = <<>>]

reset_session(session, language) ==
    /\ session \in SessionIds
    /\ With(_ensure_session(_SESSIONS, session, language, wordfile, unidecodeOk), LAMBDA table :
       With(_make_wordlist(language, wordfile, unidecodeOk), LAMBDA words :
       With(ResetState(table[session], language, words), LAMBDA st :
           /\ _SESSIONS' = [table EXCEPT ![session] = st]
           /\ ret' = [NoRet EXCEPT !.op = "reset_session", !.session = session,
                                   !.language = language,
                                   !.candidates = Len(st.candidates),
                                   !.guess_pool = Len(st.guess_pool)]
           /\ Frame)))

Failed(tool, session, args, e, m) ==
    ret' = [args EXCEPT !.op = tool, !.session = session, !.exc = e, !.msg = m]

\* An update that filters the whole guess pool instead of the candidates.
ApplyFromPool(st, g, fb) ==
    [st EXCEPT !.candidates = _filter_by_feedback(st.guess_pool, g, fb).val,
               !.history = Append(st.history, <<g, fb>>)]

\* An update that keeps only the last round in the history.
ApplyOverwritesHistory(st, g, fb) ==
    [st EXCEPT !.candidates = _filter_by_feedback(st.candidates, g, fb).val,
               !.history = << <<g, fb>> >>]

\* An update that narrows the guess pool along with the candidates.
ApplyNarrowsPool(st, g, fb) ==
    [st EXCEPT !.candidates = _filter_by_feedback(st.candidates, g, fb).val,
               !.guess_pool = _filter_by_feedback(st.guess_pool, g, fb).val,
               !.history = Append(st.history, <<g, fb>>)]

\* The assignments of apply_feedback to the session's state.
ApplyToSession(st, g, fb) ==
    [st EXCEPT !.candidates = _filter_by_feedback(st.candidates, g, fb).val,
               !.history = Append(st.history, <<g, fb>>)]

apply_feedback(session, guess, feedback) ==
    /\ session \in SessionIds
    /\ With(_ensure_session(_SESSIONS, session, "es", wordfile, unidecodeOk), LAMBDA table :
       With(table[session], LAMBDA st :
       With([NoRet EXCEPT !.guess = guess, !.feedback = feedback], LAMBDA args :
       With(_norm(guess, unidecodeOk), LAMBDA g :
           IF ~ALPHA_RE(g)
           THEN /\ _SESSIONS' = table
                /\ Failed("apply_feedback", session, args, "ValueError", "guess invalido")
                /\ Frame
           ELSE With(_coerce_feedback(feedback), LAMBDA fb :
               IF IsError(fb)
               THEN /\ _SESSIONS' = table
                    /\ Failed("apply_feedback", session, args, fb.exc, fb.msg)
                    /\ Frame
               ELSE With(ApplyToSession(st, g, fb.val), LAMBDA st2 :
                    /\ _SESSIONS' = [table EXCEPT ![session] = st2]
                    /\ ret' = [args EXCEPT !.op = "apply_feedback", !.session = session,
                                           !.applied = <<g, fb.val>>,
                                           !.candidates_before = Len(st.candidates),
                                           !.candidates_after = Len(st2.candidates),
                                           !.narrowed = Len(st.candidates) - Len(st2.candidates)]
                    /\ Frame))))))

\* The evaluation pool of suggest_guess, by phase of the game.
GuessPoolToUse(st, game_phase, sample_answers, limit_guesses, seed) ==
    LET inPool(w) == w \in Range(st.guess_pool)
    IN  IF game_phase = "early"
        THEN _get_diverse_words(st.guess_pool, st.candidates, limit_guesses)
        ELSE IF game_phase = "end" /\ Len(st.candidates) <= 10
        THEN With(SelectSeq(st.candidates, inPool), LAMBDA candidate_guesses :
                 IF candidate_guesses # <<>>
                 THEN With(_best_by_entropy(SliceTo(st.guess_pool, 500), st.candidates,
                                            10, sample_answers, None),
                           LAMBDA top_entropy :
                               ListOfSet(candidate_guesses
                                             \o [i \in 1..Len(top_entropy) |-> top_entropy[i].word],
                                         seed))
                 ELSE st.guess_pool)
        ELSE st.guess_pool

GamePhase(attempts) == IF attempts <= 1 THEN "early" ELSE IF attempts <= 3 THEN "mid" ELSE "end"

SampleAnswers(approx_when_large, n) ==
    IF approx_when_large /\ n > 1000 THEN Min(2000, Max(500, n \div 2)) ELSE None

LimitGuesses(approx_when_large, pool) ==
    IF approx_when_large /\ Len(pool) > 2000
    THEN Min(3000, Max(1000, Len(pool) \div 2)) ELSE None

\* A test of n that lets an empty candidate list through.
NoCandidatesBelowZero(n) == n < 0

\* The test of suggest_guess for an empty candidate list.
NoCandidates(n) == n = 0

\* What suggest_guess computes from the session: the final suggestions, or
\* the exception raised on the way.
Suggestions(st, top_k, approx_when_large, seed) ==
    IF NoCandidates(Len(st.candidates)) THEN Raise("ValueError", "No hay candidatas")
    ELSE
    With(GamePhase(Len(st.history)), LAMBDA game_phase :
    With(SampleAnswers(approx_when_large, Len(st.candidates)), LAMBDA sample_answers :
    With(LimitGuesses(approx_when_large, st.guess_pool), LAMBDA limit_guesses :
    With(_best_by_entropy(
             GuessPoolToUse(st, game_phase, sample_answers, limit_guesses, seed),
             st.candidates, Min(top_k * 2, 20), sample_answers, limit_guesses),
         LAMBDA scored :
        IF scored = <<>> THEN Raise("ValueError", "No se encontraron conjeturas validas")
        ELSE With(SliceTo(_rerank_suggestions(scored, st.candidates, game_phase,
                                              Len(st.history)), top_k),
                  LAMBDA final_suggestions :
                      IF final_suggestions = <<>>
                      THEN Raise("IndexError", "list index out of range")
                      ELSE Ok(final_suggestions))))))

suggest_guess(session, top_k, approx_when_large) ==
    /\ session \in SessionIds
    /\ With(_ensure_session(_SESSIONS, session, "es", wordfile, unidecodeOk), LAMBDA table :
       With(table[session], LAMBDA st :
       With([NoRet EXCEPT !.top_k = top_k], LAMBDA args :
       With(Suggestions(st, top_k, approx_when_large, hashSeed), LAMBDA r :
           LET entry(t) == [word |-> t.word, entropy_bits |-> t.bits,
                            expected_remaining |-> t.exp_rem,
                            is_candidate |-> t.word \in Range(st.candidates)]
           IN  /\ _SESSIONS' = table
               /\ IF IsError(r) THEN Failed("suggest_guess", session, args, r.exc, r.msg)
                  ELSE ret' = [args EXCEPT
                                  !.op = "suggest_guess", !.session = session,
                                  !.game_phase = GamePhase(Len(st.history)),
                                  !.attempts = Len(st.history),
                                  !.candidates = Len(st.candidates),
                                  !.best = entry(r.val[1]),
                                  !.alternatives = [i \in 1..Len(r.val) |-> entry(r.val[i])],
                                  !.final_answer =
                                      _analyze_remaining_candidates(st.candidates,
                                                                    st.history).final_answer,
                                  !.history = st.history]
               /\ Frame))))

state(session) ==
    /\ session \in SessionIds
    /\ With(_ensure_session(_SESSIONS, session, "es", wordfile, unidecodeOk), LAMBDA table :
       With(table[session], LAMBDA st :
           /\ _SESSIONS' = table
           /\ ret' = [NoRet EXCEPT !.op = "state", !.session = session,
                                   !.language = st.language,
                                   !.candidates = Len(st.candidates),
                                   !.guess_pool = Len(st.guess_pool),
                                   !.history = st.history]
           /\ Frame))

scrape_board(session) ==
    /\ session \in SessionIds
    /\ With(_ensure_session(_SESSIONS, session, "es", wordfile, unidecodeOk), LAMBDA table :
           /\ _SESSIONS' = table
           /\ ret' = [NoRet EXCEPT !.op = "scrape_board", !.session = session,
                                   !.candidates = Len(table[session].candidates)]
           /\ Frame)

-----------------------------------------------------------------------------
(* The tool server: any tool, any input, one call at a time *)

Init ==
    /\ \E w \in Worlds : /\ wordfile = w.wordfile
                         /\ unidecodeOk = w.unidecodeOk
                         /\ hashSeed = w.hashSeed
    /\ _SESSIONS = <<>>
    /\ ret = NoRet
    /\ call = NoCall
    /\ NoThreads

Next ==
    \/ \E s \in OneSession, l \in Languages : reset_session(s, l)
    \/ \E s \in OneSession, in \in ApplyInputsOf[World] :
           /\ apply_feedback(s, in[1], in[2])
           /\ HistoryTotal' <= MaxHistory
    \/ \E s \in OneSession, k \in TopKs : suggest_guess(s, k, TRUE)
    \/ \E s \in OneSession : state(s)
    \/ \E s \in OneSession : scrape_board(s)

Spec == Init /\ [][Next]_vars

-----------------------------------------------------------------------------
(* Two sessions side by side, loaded from the same word.txt *)

InitTwo == Init /\ wordfile # EmptyFile

NextTwo ==
    \/ \E s \in SessionIds, l \in Languages : reset_session(s, l)
    \/ \E s \in SessionIds, in \in FewInputs :
           /\ apply_feedback(s, in[1], in[2])
           /\ HistoryTotal' <= MaxHistory
    \/ \E s \in SessionIds : state(s)

SpecTwo == InitTwo /\ [][NextTwo]_vars

-----------------------------------------------------------------------------
(* A client playing a game: suggest, guess the best word, report the
   feedback of the game, until one candidate is left *)

\* Bound on the rounds a client plays.
MaxRounds == 8

\* A word.txt of eight words that differ in their first letter.
AtesFile ==
      [exists |-> TRUE,
       lines |-> << <<"b","a","t","e","s","<nl>">>, <<"c","a","t","e","s","<nl>">>,
                    <<"d","a","t","e","s","<nl>">>, <<"f","a","t","e","s","<nl>">>,
                    <<"g","a","t","e","s","<nl>">>, <<"h","a","t","e","s","<nl>">>,
                    <<"m","a","t","e","s","<nl>">>, <<"r","a","t","e","s","<nl>">> >>]

SolveWorlds ==
    { w \in Worlds : w.wordfile # EmptyFile } \cup
    { [wordfile |-> AtesFile, unidecodeOk |-> TRUE, hashSeed |-> h] : h \in {0, 1} }

\* The client asks for one suggestion or two.
SolveTopKs == {1, 2}

\* The game has an answer, a word of the dictionary; the client has its
\* session id and its top_k.
InitSolve ==
    /\ \E w \in SolveWorlds : /\ wordfile = w.wordfile
                              /\ unidecodeOk = w.unidecodeOk
                              /\ hashSeed = w.hashSeed
    /\ _SESSIONS = <<>>
    /\ ret = NoRet
    /\ NoThreads
    /\ \E s \in OneSession, k \in SolveTopKs :
       \E a \in Range(_make_wordlist("es", wordfile, unidecodeOk)) :
           call = [fn |-> "solve", session |-> s, answer |-> a, top_k |-> k]

\* The loop's test: the candidates are exactly the answer.
Solved ==
    /\ call.session \in DOMAIN _SESSIONS
    /\ _SESSIONS[call.session].candidates = <<call.answer>>

SolveReset ==
    /\ ret.op = "none"
    /\ \E l \in Languages : reset_session(call.session, l)

SolveSuggest ==
    /\ ret.op \in {"reset_session", "apply_feedback"}
    /\ ~Solved
    /\ suggest_guess(call.session, call.top_k, TRUE)

SolveApply ==
    /\ ret.op = "suggest_guess" /\ ret.exc = "none"
    /\ apply_feedback(call.session, ret.best.word, _pattern(ret.best.word, call.answer))
    /\ HistoryTotal' <= MaxRounds

NextSolve == SolveReset \/ SolveSuggest \/ SolveApply

SpecSolve == InitSolve /\ [][NextSolve]_vars

-----------------------------------------------------------------------------
(* The tools called from threads. A step is what a thread does between two
   points where another thread may run: taking the lock, a read of the
   session, a write to it. The table maps a session id to a SessionState
   object of the heap, and a thread's st is such an object. *)

Threads == {"t1", "t2"}

\* Bound on the calls a thread makes.
MaxCalls == 2

\* The environments the threaded server is started in.
ThreadWorlds == { w \in Worlds : w.wordfile # EmptyFile /\ w.unidecodeOk }

NoThread ==
    [pc |-> "idle", op |-> "none", session |-> "", language |-> "", unseen |-> FALSE,
     guess |-> <<>>, feedback |-> <<>>, top_k |-> 0,
     st |-> 0, g |-> <<>>, fb |-> <<>>, before |-> 0, candidates |-> <<>>, calls |-> 0]

ThreadFrame == UNCHANGED <<wordfile, unidecodeOk, hashSeed, call>>

InitThreads ==
    /\ \E w \in ThreadWorlds : /\ wordfile = w.wordfile
                               /\ unidecodeOk = w.unidecodeOk
                               /\ hashSeed = w.hashSeed
    /\ _SESSIONS = <<>>
    /\ ret = NoRet
    /\ call = NoCall
    /\ _LOCK = "free"
    /\ threads = [t \in Threads |-> NoThread]
    /\ heap = <<>>

\* A thread goes to its next step.
Goto(t, pc) == threads' = [threads EXCEPT ![t].pc = pc]

\* The call returns or raises: the thread is free for its next call.
Return(t) == threads' = [threads EXCEPT ![t] = [NoThread EXCEPT !.calls = threads[t].calls + 1]]

\* A client's call of apply_feedback arrives on thread t.
CallApplyFeedback(t, session, guess, feedback) ==
    /\ threads[t].pc = "idle" /\ threads[t].calls < MaxCalls
    /\ threads' = [threads EXCEPT ![t] =
                      [NoThread EXCEPT !.pc = "with _LOCK", !.op = "apply_feedback",
                                       !.session = session, !.language = "es",
                                       !.unseen = session \notin DOMAIN _SESSIONS,
                                       !.guess = guess, !.feedback = feedback,
                                       !.calls = threads[t].calls]]
    /\ UNCHANGED <<_SESSIONS, ret, _LOCK, heap>> /\ ThreadFrame

\* A client's call of suggest_guess arrives on thread t.
CallSuggestGuess(t, session, top_k) ==
    /\ threads[t].pc = "idle" /\ threads[t].calls < MaxCalls
    /\ threads' = [threads EXCEPT ![t] =
                      [NoThread EXCEPT !.pc = "with _LOCK", !.op = "suggest_guess",
                                       !.session = session, !.language = "es",
                                       !.unseen = session \notin DOMAIN _SESSIONS,
                                       !.top_k = top_k,
                                       !.calls = threads[t].calls]]
    /\ UNCHANGED <<_SESSIONS, ret, _LOCK, heap>> /\ ThreadFrame

\* A lock that lets every thread in.
CanAcquireAlways(lock) == TRUE

\* threading.Lock: acquired by one thread at a time.
CanAcquire(lock) == lock = "free"

\* _ensure_session, with _LOCK: the thread waits for the lock and takes it.
Acquire(t) ==
    /\ threads[t].pc = "with _LOCK"
    /\ CanAcquire(_LOCK)
    /\ _LOCK' = t
    /\ Goto(t, "if session not in _SESSIONS")
    /\ UNCHANGED <<_SESSIONS, ret, heap>> /\ ThreadFrame

\* _ensure_session, if session not in _SESSIONS.
CheckSession(t) ==
    /\ threads[t].pc = "if session not in _SESSIONS"
    /\ Goto(t, IF threads[t].session \notin DOMAIN _SESSIONS
               THEN "_SESSIONS[session] = SessionState" ELSE "release")
    /\ UNCHANGED <<_SESSIONS, ret, _LOCK, heap>> /\ ThreadFrame

\* _ensure_session: a SessionState is built from the word list and put in
\* the table.
CreateSession(t) ==
    /\ threads[t].pc = "_SESSIONS[session] = SessionState"
    /\ With(_make_wordlist(threads[t].language, wordfile, unidecodeOk), LAMBDA words :
           /\ heap' = Append(heap, SessionState(threads[t].language, words, words, <<>>))
           /\ _SESSIONS' = [x \in DOMAIN _SESSIONS \cup {threads[t].session} |->
                              IF x = threads[t].session THEN Len(heap) + 1
                              ELSE _SESSIONS[x]])
    /\ Goto(t, "release")
    /\ UNCHANGED <<ret, _LOCK>> /\ ThreadFrame

\* _ensure_session: the with block ends and the lock is released.
Release(t) ==
    /\ threads[t].pc = "release"
    /\ _LOCK' = "free"
    /\ Goto(t, "return _SESSIONS[session]")
    /\ UNCHANGED <<_SESSIONS, ret, heap>> /\ ThreadFrame

\* _ensure_session, return _SESSIONS[session]: read after the lock is
\* released.
Lookup(t) ==
    /\ threads[t].pc = "return _SESSIONS[session]"
    /\ threads' = [threads EXCEPT ![t].st = _SESSIONS[threads[t].session],
                                  ![t].pc = threads[t].op]
    /\ UNCHANGED <<_SESSIONS, ret, _LOCK, heap>> /\ ThreadFrame

ThreadRet(t) ==
    [NoRet EXCEPT !.op = threads[t].op, !.session = threads[t].session,
                  !.guess = threads[t].guess, !.feedback = threads[t].feedback,
                  !.top_k = threads[t].top_k]

\* apply_feedback up to before = len(st.candidates): the guess and the
\* feedback are checked, and the call ends if one is refused.
ApplyChecks(t) ==
    /\ threads[t].pc = "apply_feedback"
    /\ With(_norm(threads[t].guess, unidecodeOk), LAMBDA g :
       With(_coerce_feedback(threads[t].feedback), LAMBDA fb :
           IF ~ALPHA_RE(g)
           THEN /\ ret' = [ThreadRet(t) EXCEPT !.exc = "ValueError", !.msg = "guess invalido"]
                /\ Return(t)
           ELSE IF IsError(fb)
           THEN /\ ret' = [ThreadRet(t) EXCEPT !.exc = fb.exc, !.msg = fb.msg]
                /\ Return(t)
           ELSE /\ threads' = [threads EXCEPT
                                  ![t].g = g, ![t].fb = fb.val,
                                  ![t].before = Len(heap[threads[t].st].candidates),
                                  ![t].pc = "read st.candidates"]
                /\ ret' = ret))
    /\ UNCHANGED <<_SESSIONS, _LOCK, heap>> /\ ThreadFrame

\* st.candidates = _filter_by_feedback(st.candidates, g, fb): the argument
\* is read,
ApplyRead(t) ==
    /\ threads[t].pc = "read st.candidates"
    /\ threads' = [threads EXCEPT ![t].candidates = heap[threads[t].st].candidates,
                                  ![t].pc = "st.candidates ="]
    /\ UNCHANGED <<_SESSIONS, ret, _LOCK, heap>> /\ ThreadFrame

\* the list is filtered and the result is stored in the session.
ApplyStore(t) ==
    /\ threads[t].pc = "st.candidates ="
    /\ heap' = [heap EXCEPT ![threads[t].st].candidates =
                   _filter_by_feedback(threads[t].candidates, threads[t].g, threads[t].fb).val]
    /\ Goto(t, "st.history.append")
    /\ UNCHANGED <<_SESSIONS, ret, _LOCK>> /\ ThreadFrame

\* st.history.append((g, fb)): one step of the interpreter.
ApplyAppend(t) ==
    /\ threads[t].pc = "st.history.append"
    /\ heap' = [heap EXCEPT ![threads[t].st].history =
                   Append(@, <<threads[t].g, threads[t].fb>>)]
    /\ Goto(t, "after = len(st.candidates)")
    /\ UNCHANGED <<_SESSIONS, ret, _LOCK>> /\ ThreadFrame

\* after = len(st.candidates), and the result is returned.
ApplyReturn(t) ==
    /\ threads[t].pc = "after = len(st.candidates)"
    /\ With(Len(heap[threads[t].st].candidates), LAMBDA after :
           ret' = [ThreadRet(t) EXCEPT !.applied = <<threads[t].g, threads[t].fb>>,
                                       !.candidates_before = threads[t].before,
                                       !.candidates_after = after,
                                       !.narrowed = threads[t].before - after])
    /\ Return(t)
    /\ UNCHANGED <<_SESSIONS, _LOCK, heap>> /\ ThreadFrame

\* suggest_guess, n = len(st.candidates): the call ends if there is none.
SuggestCount(t) ==
    /\ threads[t].pc = "suggest_guess"
    /\ IF NoCandidates(Len(heap[threads[t].st].candidates))
       THEN /\ ret' = [ThreadRet(t) EXCEPT !.exc = "ValueError", !.msg = "No hay candidatas"]
            /\ Return(t)
       ELSE /\ Goto(t, "scoring")
            /\ ret' = ret
    /\ UNCHANGED <<_SESSIONS, _LOCK, heap>> /\ ThreadFrame

\* suggest_guess from the phase of the game to its return: the scoring. It
\* writes nothing to the session; what it returns when another thread writes
\* while it reads is left open here.
SuggestScoring(t) ==
    /\ threads[t].pc = "scoring"
    /\ Return(t)
    /\ UNCHANGED <<_SESSIONS, ret, _LOCK, heap>> /\ ThreadFrame

NextThreads ==
    \/ \E t \in Threads, s \in OneSession, in \in FewInputs :
           CallApplyFeedback(t, s, in[1], in[2])
    \/ \E t \in Threads, s \in OneSession : CallSuggestGuess(t, s, 1)
    \/ \E t \in Threads : Acquire(t)
    \/ \E t \in Threads : CheckSession(t)
    \/ \E t \in Threads : CreateSession(t)
    \/ \E t \in Threads : Release(t)
    \/ \E t \in Threads : Lookup(t)
    \/ \E t \in Threads : ApplyChecks(t)
    \/ \E t \in Threads : ApplyRead(t)
    \/ \E t \in Threads : ApplyStore(t)
    \/ \E t \in Threads : ApplyAppend(t)
    \/ \E t \in Threads : ApplyReturn(t)
    \/ \E t \in Threads : SuggestCount(t)
    \/ \E t \in Threads : SuggestScoring(t)

SpecThreads == InitThreads /\ [][NextThreads]_vars

-----------------------------------------------------------------------------
(* The pure functions, called on their own *)

\* No server is running while a pure function is called.
Idle ==
    /\ wordfile = EmptyFile
    /\ unidecodeOk = TRUE
    /\ hashSeed = 0
    /\ _SESSIONS = <<>>
    /\ ret = NoRet
    /\ NoThreads

IdleFrame == UNCHANGED <<wordfile, unidecodeOk, hashSeed, _SESSIONS, ret, _LOCK, threads, heap>>

\* Number of letters the words given to the pattern functions are made of.
AlphabetSize == 2

Letters == <<"a", "b", "c">>

Alphabet == {Letters[i] : i \in 1..AlphabetSize}

Words5 == [1..WordLen -> Alphabet]

PatternFns == {"_pattern", "pattern_for_guess"}

InitPattern ==
    /\ Idle
    /\ \E f \in PatternFns, g \in Words5, a \in Words5 :
          call = [fn |-> f, guess |-> g, answer |-> a, done |-> FALSE, out |-> <<>>]

CallPattern ==
    /\ call.fn = "_pattern" /\ ~call.done
    /\ call' = [call EXCEPT !.done = TRUE, !.out = _pattern(call.guess, call.answer)]
    /\ IdleFrame

CallPatternForGuess ==
    /\ call.fn = "pattern_for_guess" /\ ~call.done
    /\ call' = [call EXCEPT !.done = TRUE,
                            !.out = pattern_for_guess(call.guess, call.answer)]
    /\ IdleFrame

NextPattern == CallPattern \/ CallPatternForGuess

SpecPattern == InitPattern /\ [][NextPattern]_vars

\* Longest candidate list given to the filter functions.
MaxLen == 3

FilterWords ==
    { <<"m","e","s","a","s">>, <<"s","a","s","s","y">>,
      <<"m","a","s","a","s">>, <<"m","i","s","a","s">> }

FilterGuesses == FilterWords \cup { <<"m","u","s","a","s">> }

\* The lists of distinct words of FilterWords, up to MaxLen long.
CandidateLists ==
    UNION { {l \in [1..n -> FilterWords] : \A i, j \in 1..n : i # j => l[i] # l[j]} :
                n \in 0..MaxLen }

\* The ways a caller writes the pattern p for each function; the last of
\* _filter_by_feedback's is no feedback.
FeedbackFor(f, p) ==
    IF f = "_filter_by_feedback"
    THEN {p, EncodeLower(p), EncodeEmoji(p), SliceTo(p, 4)}
    ELSE {p, lower(p)}

FilterFns == {"_filter_by_feedback", "apply_feedback_to_candidates"}

InitFilter ==
    /\ Idle
    /\ \E f \in FilterFns, l \in CandidateLists, g \in FilterGuesses, w \in FilterWords :
          \E fb \in FeedbackFor(f, _pattern(g, w)) :
              call = [fn |-> f, words |-> l, guess |-> g, pattern |-> _pattern(g, w),
                      feedback |-> fb, done |-> FALSE, out |-> Ok(<<>>)]

CallFilter ==
    /\ call.fn = "_filter_by_feedback" /\ ~call.done
    /\ call' = [call EXCEPT !.done = TRUE,
                            !.out = _filter_by_feedback(call.words, call.guess,
                                                        call.feedback)]
    /\ IdleFrame

CallApplyToCandidates ==
    /\ call.fn = "apply_feedback_to_candidates" /\ ~call.done
    /\ call' = [call EXCEPT !.done = TRUE,
                            !.out = Ok(apply_feedback_to_candidates(call.words, call.guess,
                                                                    call.feedback))]
    /\ IdleFrame

NextFilter == CallFilter \/ CallApplyToCandidates

SpecFilter == InitFilter /\ [][NextFilter]_vars

\* The lists of distinct words of FilterGuesses, up to MaxLen long.
PoolLists ==
    UNION { {l \in [1..n -> FilterGuesses] : \A i, j \in 1..n : i # j => l[i] # l[j]} :
                n \in 0..MaxLen }

\* Eight answers that the guess cccdd splits 2-2-2-2 and the guess aaadd
\* 4-1-1-1-1: the same bits, 2.0, and expected remaining 2.0 and 2.5; the
\* guess ddddd does not split them.
TieAnswers ==
    << <<"b","b","b","d","d">>, <<"a","c","b","d","d">>, <<"b","b","c","d","d">>,
       <<"b","c","b","d","d">>, <<"c","a","c","d","d">>, <<"a","a","c","d","d">>,
       <<"c","b","c","d","d">>, <<"b","b","a","d","d">> >>

TieGuesses ==
    { <<"c","c","c","d","d">>, <<"a","a","a","d","d">>, <<"d","d","d","d","d">> }

TiePools ==
    UNION { {l \in [1..n -> TieGuesses] : \A i, j \in 1..n : i # j => l[i] # l[j]} :
                n \in 0..3 }

\* top_k as the callers of _best_by_entropy pass it: a count.
RankTopKs == 0..3

InitRank ==
    /\ Idle
    /\ \E k \in RankTopKs :
       \E in \in (PoolLists \X CandidateLists) \cup (TiePools \X {TieAnswers}) :
          call = [fn |-> "_best_by_entropy", guess_pool |-> in[1], answers |-> in[2],
                  top_k |-> k, done |-> FALSE, out |-> <<>>]

CallBestByEntropy ==
    /\ call.fn = "_best_by_entropy" /\ ~call.done
    /\ call' = [call EXCEPT !.done = TRUE,
                            !.out = _best_by_entropy(call.guess_pool, call.answers,
                                                     call.top_k, None, None)]
    /\ IdleFrame

NextRank == CallBestByEntropy

SpecRank == InitRank /\ [][NextRank]_vars

-----------------------------------------------------------------------------
(* Properties *)

\* The dictionary a session is loaded with.
Dictionary == _make_wordlist("es", wordfile, unidecodeOk)

\* The word w would have produced every feedback of the history.
Consistent(w, history) ==
    \A i \in 1..Len(history) : _pattern(history[i][1], w) = history[i][2]

\* A session's fields as a caller sees them: a session not referred to yet
\* is created on first reference, with the dictionary and no history.
CandidatesOf(table, s) == IF s \in DOMAIN table THEN table[s].candidates ELSE Dictionary

GuessPoolOf(table, s) == IF s \in DOMAIN table THEN table[s].guess_pool ELSE Dictionary

HistoryOf(table, s) == IF s \in DOMAIN table THEN table[s].history ELSE <<>>

Count(x, w) == Cardinality({i \in 1..Len(w) : w[i] = x})

IndexOf(w, l) == CHOOSE i \in 1..Len(l) : l[i] = w

IsPrefix(h, k) == Len(h) <= Len(k) /\ SubSeq(k, 1, Len(h)) = h

\* C1: while every feedback applied since the last reset is the pattern of
\* its guess against one dictionary word a, a stays in the candidates, so
\* the candidates are not empty.
Soundness ==
    \A s \in DOMAIN _SESSIONS :
        \A a \in Range(Dictionary) :
            Consistent(a, _SESSIONS[s].history) =>
                /\ a \in Range(_SESSIONS[s].candidates)
                /\ _SESSIONS[s].candidates # <<>>

\* Two different rounds of truthful feedback have narrowed the candidates to
\* the answer.
SoundnessWitness ==
    \E s \in DOMAIN _SESSIONS :
        LET st == _SESSIONS[s]
        IN  /\ Len(st.history) = 2
            /\ st.history[1] # st.history[2]
            /\ Len(st.candidates) = 1
            /\ Len(st.candidates) < Len(Dictionary)
            /\ Consistent(st.candidates[1], st.history)

\* C2: the pattern of a guess against an answer has G exactly where the two
\* agree, and for each letter the positions of the guess marked G or Y are
\* no more than the letter's occurrences in the answer.
PatternCorrect ==
    (call.fn \in PatternFns /\ call.done) =>
        /\ DOMAIN call.out = 1..WordLen
        /\ Range(call.out) \subseteq GYK
        /\ \A i \in 1..WordLen : (call.out[i] = "G") <=> (call.guess[i] = call.answer[i])
        /\ \A x \in Range(call.guess) :
              Cardinality({i \in 1..WordLen : call.guess[i] = x /\ call.out[i] \in {"G", "Y"}})
                  <= Count(x, call.answer)

\* A guess with more copies of a letter than the answer has: one copy is
\* marked G, one Y and one K.
PatternWitness ==
    /\ call.fn = "_pattern" /\ call.done
    /\ \E x \in Range(call.guess) :
          /\ Count(x, call.guess) > Count(x, call.answer)
          /\ \E i, j, k \in 1..WordLen :
                /\ call.guess[i] = x /\ call.out[i] = "G"
                /\ call.guess[j] = x /\ call.out[j] = "Y"
                /\ call.guess[k] = x /\ call.out[k] = "K"

\* C3: the filter returns the candidates whose pattern against the guess is
\* the given pattern, and only those, in the order they had; so no more
\* words than it was given.
FilterCorrect ==
    (call.fn \in FilterFns /\ call.done) =>
        /\ IsError(call.out) <=> call.feedback = SliceTo(call.pattern, 4)
        /\ ~IsError(call.out) =>
              LET out == call.out.val
              IN  /\ \A i \in 1..Len(out) :
                        /\ out[i] \in Range(call.words)
                        /\ _pattern(call.guess, out[i]) = call.pattern
                  /\ \A c \in Range(call.words) :
                        _pattern(call.guess, c) = call.pattern => c \in Range(out)
                  /\ \A i, j \in 1..Len(out) :
                        i < j => IndexOf(out[i], call.words) < IndexOf(out[j], call.words)
                  /\ Len(out) <= Len(call.words)

\* Of three candidates the filter, given squares, keeps the first and the
\* last.
FilterWitness ==
    /\ call.fn = "_filter_by_feedback" /\ call.done /\ ~IsError(call.out)
    /\ call.feedback = EncodeEmoji(call.pattern)
    /\ Len(call.words) = 3
    /\ call.out.val = <<call.words[1], call.words[3]>>

\* C4: at every boundary between operations a session's candidates are the
\* dictionary words consistent with every round of its history, each once.
Completeness ==
    \A s \in DOMAIN _SESSIONS :
        LET st == _SESSIONS[s]
        IN  /\ Range(st.candidates) = {w \in Range(Dictionary) : Consistent(w, st.history)}
            /\ Cardinality(Range(st.candidates)) = Len(st.candidates)

\* A suggestion was asked for after two rounds that left some candidates and
\* removed others.
CompletenessWitness ==
    /\ ret.op = "suggest_guess" /\ ret.exc = "none"
    /\ \E s \in DOMAIN _SESSIONS :
          LET st == _SESSIONS[s]
          IN  /\ Len(st.history) >= 2
              /\ Len(st.candidates) > 1
              /\ Len(st.candidates) < Len(Dictionary)

\* C5: a step that is not a reset leaves every session with a sublist of the
\* candidates it had; a successful apply_feedback reports the sizes before
\* and after, after <= before, and narrowed = before - after >= 0.
NeverGrows ==
    [][ /\ ret'.op # "reset_session" =>
              \A s \in SessionIds :
                  /\ Range(CandidatesOf(_SESSIONS', s)) \subseteq Range(CandidatesOf(_SESSIONS, s))
                  /\ Len(CandidatesOf(_SESSIONS', s)) <= Len(CandidatesOf(_SESSIONS, s))
        /\ (ret'.op = "apply_feedback" /\ ret'.exc = "none") =>
              /\ ret'.candidates_before = Len(CandidatesOf(_SESSIONS, ret'.session))
              /\ ret'.candidates_after = Len(CandidatesOf(_SESSIONS', ret'.session))
              /\ ret'.candidates_after <= ret'.candidates_before
              /\ ret'.narrowed = ret'.candidates_before - ret'.candidates_after
              /\ ret'.narrowed >= 0
      ]_vars

\* A second round of feedback removed candidates and left some.
NeverGrowsWitness ==
    /\ ret.op = "apply_feedback" /\ ret.exc = "none"
    /\ ret.narrowed > 0
    /\ ret.candidates_after > 0
    /\ Len(HistoryOf(_SESSIONS, ret.session)) >= 2

\* C6: a successful apply_feedback appends one round, the normalized guess
\* and the normalized pattern, to the end of the history; a failed one,
\* suggest_guess, state and scrape_board leave the history as it is; only a
\* reset empties it, so without a reset the earlier history is a prefix of
\* the later one.
HistoryAppendOnly ==
    [][ \A s \in SessionIds :
          LET h == HistoryOf(_SESSIONS, s)
              h2 == HistoryOf(_SESSIONS', s)
          IN  /\ (ret'.op = "apply_feedback" /\ ret'.exc = "none" /\ ret'.session = s) =>
                    /\ h2 = Append(h, ret'.applied)
                    /\ ret'.applied[1] = _norm(ret'.guess, unidecodeOk)
                    /\ ALPHA_RE(ret'.applied[1])
                    /\ ret'.applied[2] \in [1..WordLen -> GYK]
                    /\ Ok(ret'.applied[2]) = _coerce_feedback(ret'.feedback)
              /\ (ret'.op = "apply_feedback" /\ ret'.exc # "none") => h2 = h
              /\ ret'.op \in {"suggest_guess", "state", "scrape_board"} => h2 = h
              /\ (ret'.op = "reset_session" /\ ret'.session = s) => h2 = <<>>
              /\ ret'.op # "reset_session" => IsPrefix(h, h2)
              /\ ret'.session # s => h2 = h
      ]_vars

\* state reads a history of three rounds, asked in order, the first two
\* different.
HistoryWitness ==
    /\ ret.op = "state"
    /\ Len(ret.history) = 3
    /\ ret.history[1] # ret.history[2]
    /\ ret.history = HistoryOf(_SESSIONS, ret.session)

\* The characters of a raw guess that are letters once it is normalized.
IsLetter(c) ==
    c \in AZ \cup DOMAIN LowerOf \cup (IF unidecodeOk THEN {"<a-acute>"} ELSE {})

\* The guess has exactly 5 alphabetic characters.
ValidGuess(raw) == Cardinality({i \in 1..Len(raw) : IsLetter(raw[i])}) = WordLen

\* The feedback is 5 symbols of either encoding, blanks around them aside.
ValidFeedback(raw) ==
    /\ Len(strip(raw)) = WordLen
    /\ Range(strip(raw)) \subseteq
           {"G", "Y", "K", "g", "y", "k", "<green>", "<yellow>", "<black>", "<white>"}

\* C7: apply_feedback fails with the invalid-guess error when the guess has
\* not exactly 5 alphabetic characters, with the invalid-feedback error when
\* the guess is valid and the feedback is not 5 symbols of either encoding,
\* and succeeds otherwise; a failed call appends no round and leaves the
\* candidates as they were.
ErrorsLeaveState ==
    [][ ret'.op = "apply_feedback" =>
          /\ ~ValidGuess(ret'.guess) =>
                ret'.exc = "ValueError" /\ ret'.msg = "guess invalido"
          /\ (ValidGuess(ret'.guess) /\ ~ValidFeedback(ret'.feedback)) =>
                ret'.exc = "ValueError" /\ ret'.msg = "feedback invalido"
          /\ (ValidGuess(ret'.guess) /\ ValidFeedback(ret'.feedback)) => ret'.exc = "none"
          /\ ret'.exc # "none" =>
                /\ ret'.applied = <<>>
                /\ \A s \in SessionIds :
                      /\ HistoryOf(_SESSIONS', s) = HistoryOf(_SESSIONS, s)
                      /\ CandidatesOf(_SESSIONS', s) = CandidatesOf(_SESSIONS, s)
                      /\ GuessPoolOf(_SESSIONS', s) = GuessPoolOf(_SESSIONS, s)
      ]_vars

\* A feedback with a symbol outside both encodings was refused in a session
\* that two rounds had narrowed.
ErrorsWitness ==
    /\ ret.op = "apply_feedback" /\ ret.msg = "feedback invalido"
    /\ ValidGuess(ret.guess) /\ Len(ret.feedback) = WordLen
    /\ Len(HistoryOf(_SESSIONS, ret.session)) = 2
    /\ Len(CandidatesOf(_SESSIONS, ret.session)) = 1

\* C8: suggest_guess on a session without candidates fails with the
\* no-candidates error, returns no guess, and leaves the candidates, the
\* guess pool and the history as they were.
SuggestOnEmpty ==
    [][ (ret'.op = "suggest_guess" /\ CandidatesOf(_SESSIONS, ret'.session) = <<>>) =>
          /\ ret'.exc = "ValueError" /\ ret'.msg = "No hay candidatas"
          /\ ret'.best = <<>> /\ ret'.alternatives = <<>>
          /\ CandidatesOf(_SESSIONS', ret'.session) = <<>>
          /\ \A s \in SessionIds :
                /\ CandidatesOf(_SESSIONS', s) = CandidatesOf(_SESSIONS, s)
                /\ GuessPoolOf(_SESSIONS', s) = GuessPoolOf(_SESSIONS, s)
                /\ HistoryOf(_SESSIONS', s) = HistoryOf(_SESSIONS, s)
      ]_vars

\* suggest_guess was refused in a session whose rounds contradict each other:
\* the dictionary is loaded and no candidate is left.
SuggestOnEmptyWitness ==
    /\ ret.op = "suggest_guess" /\ ret.msg = "No hay candidatas"
    /\ CandidatesOf(_SESSIONS, ret.session) = <<>>
    /\ GuessPoolOf(_SESSIONS, ret.session) # <<>>
    /\ Len(HistoryOf(_SESSIONS, ret.session)) >= 2

\* C9 as stated: with a dictionary that is not empty, a suggest_guess that
\* follows a reset of the session succeeds and returns a guess.
ResetThenSuggest ==
    [][ (/\ ret.op = "reset_session"
         /\ ret'.op = "suggest_guess" /\ ret'.session = ret.session
         /\ Dictionary # <<>>) =>
            /\ ret'.exc = "none"
            /\ ret'.best # <<>>
            /\ ret'.best.word # <<>>
      ]_vars

\* C9: with a dictionary that is not empty, a suggest_guess that follows a
\* reset of the session and asks for at least one suggestion (top_k >= 1)
\* succeeds and returns a guess, a word of the dictionary.
ResetThenSuggestTopK ==
    [][ (/\ ret.op = "reset_session"
         /\ ret'.op = "suggest_guess" /\ ret'.session = ret.session
         /\ ret'.top_k >= 1
         /\ Dictionary # <<>>) =>
            /\ ret'.exc = "none"
            /\ ret'.best # <<>>
            /\ ret'.best.word \in Range(Dictionary)
      ]_vars

\* A suggestion for one guess was given in a session reset to English and
\* not narrowed since.
ResetThenSuggestWitness ==
    /\ ret.op = "suggest_guess" /\ ret.exc = "none"
    /\ ret.top_k = 1
    /\ ret.attempts = 0
    /\ ret.session \in DOMAIN _SESSIONS
    /\ _SESSIONS[ret.session].language = "en"
    /\ ret.candidates = Len(Dictionary)
    /\ ret.best.word \in Range(Dictionary)

\* C10: after reset_session(session, language) the session's candidates and
\* guess pool are the whole dictionary, in its order, its history is empty,
\* and the counts returned are the dictionary's size.
ResetRestores ==
    ret.op = "reset_session" =>
        /\ ret.session \in DOMAIN _SESSIONS
        /\ LET st == _SESSIONS[ret.session]
           IN  /\ st.candidates = Dictionary
               /\ st.guess_pool = Dictionary
               /\ st.history = <<>>
               /\ st.language = ret.language
               /\ ret.candidates = Len(Dictionary)
               /\ ret.guess_pool = Len(Dictionary)

\* A reset to English returned the size of a dictionary of four words.
ResetRestoresWitness ==
    /\ ret.op = "reset_session" /\ ret.language = "en"
    /\ ret.candidates = 4 /\ ret.guess_pool = 4
    /\ Len(_SESSIONS[ret.session].candidates) = 4

\* C11: a suggest_guess asking for at least one suggestion in a session with
\* exactly one candidate w, whatever the length of the history, reports w as
\* the final answer and returns w as the best guess.
SingleCandidate ==
    (/\ ret.op = "suggest_guess" /\ ret.exc = "none"
     /\ ret.top_k >= 1
     /\ Len(CandidatesOf(_SESSIONS, ret.session)) = 1) =>
        /\ ret.final_answer = CandidatesOf(_SESSIONS, ret.session)[1]
        /\ ret.best.word = CandidatesOf(_SESSIONS, ret.session)[1]

\* C12 as stated: a client that starts with a reset and plays the best guess
\* of suggest_guess against a game whose answer is a word of the dictionary
\* has the answer as its only candidate after at most 6 rounds.
SolvedInSix ==
    (/\ call.session \in DOMAIN _SESSIONS
     /\ Len(_SESSIONS[call.session].history) >= 6) => Solved

\* C12: with a dictionary of no more words than the large-list shortcuts
\* start at (1000), no call of the client fails, the answer stays among the
\* candidates and every round removes a candidate at least, so that after
\* (words of the dictionary - 1) rounds at most the answer is the only
\* candidate: within 6 rounds for a dictionary of 7 words or fewer.
SolvedInDictionaryRounds ==
    (ret.op # "none" /\ Len(Dictionary) <= 1000) =>
        LET st == _SESSIONS[call.session]
        IN  /\ ret.exc = "none"
            /\ call.answer \in Range(st.candidates)
            /\ Len(st.candidates) + Len(st.history) <= Len(Dictionary)
            /\ (Len(st.history) >= Len(Dictionary) - 1 => Solved)

\* The answer of a game over eight words was the only candidate after the
\* seventh round, not before.
SolvedInDictionaryRoundsWitness ==
    /\ Solved
    /\ ret.op = "apply_feedback" /\ ret.narrowed = 1 /\ ret.candidates_before = 2
    /\ Len(Dictionary) = 8
    /\ Len(_SESSIONS[call.session].history) = 7

\* C13: suggest_guess leaves every session's candidates, guess pool and
\* history as they were, and a suggest_guess that follows a suggest_guess
\* with the same session and top_k, nothing between them, returns what the
\* first returned: the same best guess, the same alternatives in the same
\* order, or the same error.
SuggestIdempotent ==
    [][ ret'.op = "suggest_guess" =>
            /\ \A s \in SessionIds :
                   /\ CandidatesOf(_SESSIONS', s) = CandidatesOf(_SESSIONS, s)
                   /\ GuessPoolOf(_SESSIONS', s) = GuessPoolOf(_SESSIONS, s)
                   /\ HistoryOf(_SESSIONS', s) = HistoryOf(_SESSIONS, s)
            /\ (/\ ret.op = "suggest_guess"
                /\ ret.session = ret'.session /\ ret.top_k = ret'.top_k) =>
                   /\ ret'.exc = ret.exc
                   /\ ret'.best = ret.best
                   /\ ret'.alternatives = ret.alternatives
      ]_vars

\* Two suggestions were returned in the end phase, from the pool built as a
\* union, for a session narrowed to fewer candidates than its pool has words:
\* the two tie on bits and on expected remaining.
SuggestIdempotentWitness ==
    /\ ret.op = "suggest_guess" /\ ret.exc = "none"
    /\ ret.game_phase = "end" /\ ret.top_k = 2
    /\ Len(ret.alternatives) = 2
    /\ ret.alternatives[1].entropy_bits = ret.alternatives[2].entropy_bits
    /\ ret.alternatives[1].expected_remaining = ret.alternatives[2].expected_remaining
    /\ ret.candidates >= 2
    /\ ret.candidates < Len(GuessPoolOf(_SESSIONS, ret.session))

\* The steps of _ensure_session between taking the lock and releasing it.
InLock == {"if session not in _SESSIONS", "_SESSIONS[session] = SessionState", "release"}

\* The steps of a tool past its st = _ensure_session(...).
InTool ==
    {"apply_feedback", "read st.candidates", "st.candidates =", "st.history.append",
     "after = len(st.candidates)", "suggest_guess", "scoring"}

\* C14: whatever the interleaving of the calls, one thread at a time is
\* between taking and releasing the lock; one SessionState is built for a
\* session id, however many calls found the id unseen when they arrived;
\* every call reads and writes the SessionState the table holds for its id;
\* and a thread holds the lock only within _ensure_session, so never while
\* it scores.
SessionCreatedOnce ==
    /\ \A t, u \in Threads : (threads[t].pc \in InLock /\ threads[u].pc \in InLock) => t = u
    /\ Len(heap) = Cardinality(DOMAIN _SESSIONS)
    /\ \A s, r \in DOMAIN _SESSIONS : _SESSIONS[s] = _SESSIONS[r] => s = r
    /\ \A t \in Threads :
           /\ threads[t].pc \in InTool =>
                  /\ threads[t].session \in DOMAIN _SESSIONS
                  /\ threads[t].st = _SESSIONS[threads[t].session]
           /\ _LOCK = t <=> threads[t].pc \in InLock
           /\ threads[t].pc = "scoring" => _LOCK # t

\* Two calls arrived when the session id was unseen; one SessionState was
\* built; the call that built it has it and is scoring, while the other
\* holds the lock and has found the session in the table.
SessionCreatedOnceWitness ==
    /\ threads["t1"].unseen /\ threads["t1"].pc = "scoring"
    /\ threads["t2"].unseen /\ threads["t2"].pc = "release" /\ _LOCK = "t2"
    /\ Len(heap) = 1
    /\ threads["t1"].st = _SESSIONS["default"]

\* C15: an apply_feedback addressed to a session leaves that session's guess
\* pool and language as they were, and leaves every other session as it was:
\* its candidates, guess pool, history and language; it creates no other
\* session.
ApplyTouchesOneSession ==
    [][ ret'.op = "apply_feedback" =>
            \A s \in SessionIds :
                /\ GuessPoolOf(_SESSIONS', s) = GuessPoolOf(_SESSIONS, s)
                /\ s \in DOMAIN _SESSIONS =>
                       /\ s \in DOMAIN _SESSIONS'
                       /\ _SESSIONS'[s].language = _SESSIONS[s].language
                /\ s # ret'.session =>
                       /\ s \in DOMAIN _SESSIONS' <=> s \in DOMAIN _SESSIONS
                       /\ s \in DOMAIN _SESSIONS => _SESSIONS'[s] = _SESSIONS[s]
      ]_vars

\* Feedback narrowed the session "default" while the session "other", loaded
\* from the same dictionary with another language tag, had been narrowed
\* otherwise: both keep the whole dictionary as their guess pool.
ApplyTouchesOneSessionWitness ==
    /\ ret.op = "apply_feedback" /\ ret.exc = "none" /\ ret.session = "default"
    /\ ret.narrowed > 0
    /\ DOMAIN _SESSIONS = SessionIds
    /\ _SESSIONS["other"].language # _SESSIONS["default"].language
    /\ _SESSIONS["other"].history # <<>>
    /\ _SESSIONS["other"].candidates # _SESSIONS["default"].candidates
    /\ _SESSIONS["other"].guess_pool = Dictionary
    /\ _SESSIONS["default"].guess_pool = Dictionary
    /\ Len(_SESSIONS["default"].candidates) < Len(Dictionary)

\* a ranks strictly above b: more bits, or the same bits and a smaller
\* expected remaining.
RanksAbove(a, b) ==
    \/ BitsGreater(a.bits, b.bits)
    \/ a.bits = b.bits /\ ExpLess(a.exp_rem, b.exp_rem)

\* C16: _best_by_entropy(guess_pool, answers, top_k) returns at most top_k
\* records, none when the pool or the answers are empty; each is a word of
\* the pool with its bits and expected remaining over the answers; of two
\* adjacent records the first has more bits, or the same bits and an
\* expected remaining not larger; and no word of the pool left out ranks
\* strictly above a record returned.
RankCorrect ==
    (call.fn = "_best_by_entropy" /\ call.done) =>
        LET out == call.out
            scoreOf(w) == _entropy_for_guess(w, call.answers)
        IN  /\ Len(out) <= call.top_k
            /\ (call.guess_pool = <<>> \/ call.answers = <<>>) => out = <<>>
            /\ \A i \in 1..Len(out) :
                   /\ out[i].word \in Range(call.guess_pool)
                   /\ out[i].bits = scoreOf(out[i].word).bits
                   /\ out[i].exp_rem = scoreOf(out[i].word).exp_rem
            /\ \A i \in 1..(Len(out) - 1) :
                   \/ BitsGreater(out[i].bits, out[i + 1].bits)
                   \/ /\ out[i].bits = out[i + 1].bits
                      /\ ~ExpLess(out[i + 1].exp_rem, out[i].exp_rem)
            /\ \A w \in Range(call.guess_pool) \ {out[i].word : i \in 1..Len(out)} :
                   \A i \in 1..Len(out) : ~RanksAbove(scoreOf(w), out[i])

\* Of a pool of three guesses two were returned: they tie on bits, and the
\* one with the smaller expected remaining, the later of the two in the
\* pool, is first; the guess left out has fewer bits.
RankWitness ==
    /\ call.fn = "_best_by_entropy" /\ call.done
    /\ Len(call.guess_pool) = 3 /\ call.top_k = 2 /\ Len(call.out) = 2
    /\ call.out[1].bits = call.out[2].bits
    /\ ExpLess(call.out[1].exp_rem, call.out[2].exp_rem)
    /\ call.guess_pool[1] = call.out[2].word
    /\ call.guess_pool[3] = call.out[1].word
    /\ BitsZero(_entropy_for_guess(call.guess_pool[2], call.answers).bits)

\* C17: filtering the candidates an accepted apply_feedback has left, with
\* the same guess and pattern again, returns them unchanged; and an accepted
\* apply_feedback whose (guess, pattern) is in the session's history already
\* leaves the candidates as they were, reports narrowed = 0, and still
\* appends the round to the history.
RefilterIdempotent ==
    [][ (ret'.op = "apply_feedback" /\ ret'.exc = "none") =>
            LET s == ret'.session
                g == ret'.applied[1]
                fb == ret'.applied[2]
                before == CandidatesOf(_SESSIONS, s)
                after == CandidatesOf(_SESSIONS', s)
            IN  /\ after = _filter_by_feedback(before, g, fb).val
                /\ _filter_by_feedback(after, g, fb) = Ok(after)
                /\ <<g, fb>> \in Range(HistoryOf(_SESSIONS, s)) =>
                       /\ after = before
                       /\ ret'.narrowed = 0
                       /\ ret'.candidates_after = ret'.candidates_before
                       /\ HistoryOf(_SESSIONS', s) = Append(HistoryOf(_SESSIONS, s), <<g, fb>>)
      ]_vars

\* The same feedback was applied twice in a row to a narrowed session: the
\* second time nothing was removed from the candidates that were left, and
\* the history has the round twice.
RefilterIdempotentWitness ==
    /\ ret.op = "apply_feedback" /\ ret.exc = "none"
    /\ ret.narrowed = 0
    /\ ret.candidates_before >= 2 /\ ret.candidates_before < Len(Dictionary)
    /\ LET h == HistoryOf(_SESSIONS, ret.session)
       IN  /\ Len(h) = 2
           /\ h[1] = h[2]
           /\ h[2] = ret.applied

\* The suggestions of an answer that are candidates, and those that are not,
\* each in the order returned.
AltCandidates(alts) == SelectSeq(alts, LAMBDA e : e.is_candidate)

AltOthers(alts) == SelectSeq(alts, LAMBDA e : ~e.is_candidate)

\* The suggestions are in order of bits descending, then expected remaining
\* ascending.
AltSorted(alts) ==
    \A i \in 1..(Len(alts) - 1) :
        \/ BitsGreater(alts[i].entropy_bits, alts[i + 1].entropy_bits)
        \/ /\ alts[i].entropy_bits = alts[i + 1].entropy_bits
           /\ ~ExpLess(alts[i + 1].expected_remaining, alts[i].expected_remaining)

\* C18: a suggest_guess in the end phase (more than 3 rounds in the history)
\* with at most 5 candidates returns the candidates first: no suggestion that
\* is not a candidate precedes one that is; the candidates among them are
\* sorted by bits descending then expected remaining ascending, and so are
\* the others; and the best guess is a candidate whenever a candidate is in
\* the guess pool.
EndPhaseCandidatesFirst ==
    (/\ ret.op = "suggest_guess" /\ ret.exc = "none"
     /\ ret.attempts > 3 /\ ret.candidates <= 5) =>
        LET alts == ret.alternatives
            st == _SESSIONS[ret.session]
        IN  /\ alts = AltCandidates(alts) \o AltOthers(alts)
            /\ AltSorted(AltCandidates(alts))
            /\ AltSorted(AltOthers(alts))
            /\ Range(st.candidates) \cap Range(st.guess_pool) # {} =>
                   ret.best.word \in Range(st.candidates)

\* C19: once the calls of all threads have returned, the history of a
\* session holds the round of the apply_feedback that returned last, and its
\* candidates are the words of the dictionary consistent with every round of
\* its history: no round's filter is lost, however the calls interleaved.
NoLostUpdate ==
    (\A t \in Threads : threads[t].pc = "idle") =>
        \A s \in DOMAIN _SESSIONS :
            LET st == heap[_SESSIONS[s]]
            IN  /\ (ret.op = "apply_feedback" /\ ret.exc = "none" /\ ret.session = s) =>
                       ret.applied \in Range(st.history)
                /\ st.candidates = SelectSeq(Dictionary, LAMBDA w : Consistent(w, st.history))

=============================================================================
